---- MODULE Spec2Model ----
(***************************************************************************)
(* Model of the element-resolution and action-execution engine of          *)
(* auto-proserie: the criteria search of AIFormAutomation                  *)
(* (ai_form_filler.py), the target search of ProSeriesW2Automation         *)
(* (proseries_w2_automation.py) and the two form-filling flows built on    *)
(* them.                                                                   *)
(***************************************************************************)
EXTENDS Integers, Sequences, FiniteSets, TLC

\* ------------------------------------------------------------------ bounds
MaxNodes == 3           \* nodes of an accessibility tree, the root included
MaxPlan == 3            \* entries of an oracle answer (action list / mappings)
MaxForms == 2           \* records of a batch input
MaxBatchPlan == 2       \* entries of an oracle answer while a batch runs

\* default of the max_depth parameter of _search_element
DefaultMaxDepth == 10

\* ----------------------------------------------------------------- strings
\* A string is a sequence of characters; None is Python's None (an absent
\* attribute, an absent dictionary key).  NotFound is the None returned by a
\* resolver; live nodes are numbered from 1.
None == <<"None">>
NotFound == 0

LowerChar(c) == IF c = "A" THEN "a" ELSE IF c = "B" THEN "b" ELSE c

\* str.lower()
lower(s) == [k \in 1..Len(s) |-> LowerChar(s[k])]

\* Python's `sub in s` on strings
Contains(sub, s) ==
    \E k \in 0..(Len(s) - Len(sub)) : SubSeq(s, k + 1, k + Len(sub)) = sub

\* Python truthiness of an optional string: None and "" are falsy
Truthy(v) == v # None /\ v # <<>>

\* ------------------------------------------------------------------- trees
\* A tree is a function from its nodes 1..n to records; node 1 is the root
\* (the focused window / main window), kids is the ordered child list.
Titles == {None, <<"a">>, <<"A", "b">>, <<"a", "b">>, <<"b">>}
Identifiers == {None, <<"a">>}
ControlTypes == {"Edit", "Text"}

\* the controls of a form: static labels (Text) are visible and carry no
\* identifier; a hidden control is a hidden copy of the field titled "a"
NodeKinds ==
    {k \in [title : Titles, identifier : Identifiers, ctype : ControlTypes,
            visible : BOOLEAN] :
        /\ k.ctype = "Text" => (k.identifier = None /\ k.visible)
        /\ ~k.visible => k.title = <<"a">>}

RootKinds ==
    [title : {None, <<"b">>}, identifier : {None}, ctype : {"Window"},
     visible : {TRUE}]

RECURSIVE AncOrSelf(_, _)
AncOrSelf(par, i) == IF i = 1 THEN {1} ELSE {i} \cup AncOrSelf(par, par[i])

\* parent functions whose node numbering is the document (pre-)order
Parents(n) ==
    {par \in {p \in [2..n -> 1..n] : \A i \in 2..n : p[i] < i} :
        \A i \in 2..n : par[i] \in AncOrSelf(par, i - 1)}

SortedSeq(S) ==
    CHOOSE s \in [1..Cardinality(S) -> S] :
        \A i, j \in 1..Cardinality(S) : i < j => s[i] < s[j]

\* enabled: is_enabled() / AXEnabled; readable = FALSE: reading an attribute
\* of the node raises in the backend; listable = FALSE: enumerating its
\* children raises.  A tree is built healthy.
MkTree(n, par, rk, attrs) ==
    [e \in 1..n |->
        LET a == IF e = 1 THEN rk ELSE attrs[e]
        IN [title |-> a.title, identifier |-> a.identifier, ctype |-> a.ctype,
            visible |-> a.visible,
            enabled |-> TRUE, readable |-> TRUE, listable |-> TRUE,
            kids |-> SortedSeq({i \in 2..n : par[i] = e})]]

\* t is one of the trees of at most MaxNodes nodes
IsTree(t) ==
    \E n \in 1..MaxNodes : \E par \in Parents(n) : \E rk \in RootKinds :
        \E attrs \in [2..n -> NodeKinds] : t = MkTree(n, par, rk, attrs)

\* ------------------------------------------------- AIFormAutomation search
\* f"AX{key.title().replace('_', '')}"
AttrName(key) ==
    IF key = "title" THEN "AXTitle"
    ELSE IF key = "identifier" THEN "AXIdentifier"
    ELSE "AXOther"

\* getattr(element, attr_name, None); an attribute the element does not have
\* reads as None, and so does one whose reading raises
_safe_get(t, element, attr_name) ==
    IF ~t[element].readable THEN None
    ELSE IF attr_name = "AXTitle" THEN t[element].title
    ELSE IF attr_name = "AXIdentifier" THEN t[element].identifier
    ELSE None

\* the `matches` flag computed by the loop over criteria.items()
Matches(t, element, criteria) ==
    \A key \in DOMAIN criteria :
        LET value == criteria[key]
            elem_value == _safe_get(t, element, AttrName(key))
        IN (Truthy(value) /\ Truthy(elem_value))
               => Contains(lower(value), lower(elem_value))

RECURSIVE _search_element(_, _, _, _, _)
RECURSIVE SearchChildren(_, _, _, _, _, _)
_search_element(t, element, criteria, max_depth, current_depth) ==
    IF current_depth >= max_depth THEN NotFound
    ELSE IF Matches(t, element, criteria) THEN element
    ELSE IF ~t[element].listable THEN NotFound
    ELSE SearchChildren(t, t[element].kids, 1, criteria, max_depth,
                        current_depth + 1)

\* for child in (element.AXChildren or []): first truthy result wins
SearchChildren(t, kids, k, criteria, max_depth, depth) ==
    IF k > Len(kids) THEN NotFound
    ELSE LET result == _search_element(t, kids[k], criteria, max_depth, depth)
         IN IF result # NotFound THEN result
            ELSE SearchChildren(t, kids, k + 1, criteria, max_depth, depth)

\* root=None: the focused window, node 1
find_element_by_criteria(t, criteria) ==
    _search_element(t, 1, criteria, DefaultMaxDepth, 0)

\* -------------------------------------------- ProSeriesW2Automation search
\* element.window_text() / automation_id: an absent name reads as ""
window_text(t, e) == IF t[e].title = None THEN <<>> ELSE t[e].title
automation_id(t, e) ==
    IF t[e].identifier = None THEN <<>> ELSE t[e].identifier

RECURSIVE descendants(_, _)
RECURSIVE DescList(_, _, _)
\* main_window.descendants(): every node below e, in document order
descendants(t, e) == DescList(t, t[e].kids, 1)
DescList(t, kids, k) ==
    IF k > Len(kids) THEN <<>>
    ELSE <<kids[k]>> \o descendants(t, kids[k]) \o DescList(t, kids, k + 1)

Range(s) == {s[k] : k \in 1..Len(s)}

\* main_window.child_window(...).exists(): the lookup considers the visible
\* descendants; it yields the element when exactly one satisfies the
\* criteria, False when none does, and raises (swallowed by the bare
\* except) when several do; a descendant whose properties cannot be read
\* satisfies no criteria
child_window(t, found) ==
    LET visible == {e \in found : t[e].visible /\ t[e].readable}
    IN IF Cardinality(visible) = 1 THEN CHOOSE e \in visible : TRUE
       ELSE NotFound

ByTitle(t, target) ==
    child_window(t, {e \in Range(descendants(t, 1)) :
        window_text(t, e) = target /\ t[e].ctype = "Edit"})

ByAutoId(t, target) ==
    child_window(t, {e \in Range(descendants(t, 1)) :
        automation_id(t, e) = target})

\* title_re=f".*{target}.*": a case-sensitive match of target inside the title
ByTitleRe(t, target) ==
    child_window(t, {e \in Range(descendants(t, 1)) :
        Contains(target, window_text(t, e)) /\ t[e].ctype = "Edit"})

RECURSIVE ScanFrom(_, _, _, _)
\* for desc in descendants: first visible one whose text contains the target
ScanFrom(t, descs, k, target) ==
    IF k > Len(descs) THEN NotFound
    ELSE IF /\ t[descs[k]].readable
            /\ Contains(lower(target), lower(window_text(t, descs[k])))
            /\ t[descs[k]].visible
         THEN descs[k]
         ELSE ScanFrom(t, descs, k + 1, target)

ByVisibleText(t, target) == ScanFrom(t, descendants(t, 1), 1, target)

\* the lookups in the order identifier, title, title pattern, text
_find_element_by_target_id_first(t, target) ==
    IF ByAutoId(t, target) # NotFound THEN ByAutoId(t, target)
    ELSE IF ByTitle(t, target) # NotFound THEN ByTitle(t, target)
    ELSE IF ByTitleRe(t, target) # NotFound THEN ByTitleRe(t, target)
    ELSE ByVisibleText(t, target)

_find_element_by_target(t, target) ==
    IF ByTitle(t, target) # NotFound THEN ByTitle(t, target)
    ELSE IF ByAutoId(t, target) # NotFound THEN ByAutoId(t, target)
    ELSE IF ByTitleRe(t, target) # NotFound THEN ByTitleRe(t, target)
    ELSE ByVisibleText(t, target)

\* --------------------------------------------------------------- snapshots
\* A snapshot is the nested dictionary the code builds: Info for a node that
\* was read (node: the live node it stands for), Truncated for the sentinel
\* {"truncated": True}, Empty for {}.
Truncated == [kind |-> "truncated"]
Empty == [kind |-> "empty"]
Info(e, children) == [kind |-> "node", node |-> e, children |-> children]

\* max_depth of get_ui_structure, of get_ui_tree, and the one
\* get_focused_form_structure passes to get_ui_tree_structure
AiSnapshotDepth == 6
InspectorDepth == 10
FocusedFormDepth == 4
\* children[:20]
ChildLimit == 20

FirstN(kids, n) == SubSeq(kids, 1, IF Len(kids) < n THEN Len(kids) ELSE n)

RECURSIVE _traverse_ui_tree(_, _, _, _)
\* AIFormAutomation._traverse_ui_tree: _safe_get swallows the attribute
\* errors, a failing AXChildren leaves the node without children
_traverse_ui_tree(t, element, max_depth, current_depth) ==
    IF current_depth >= max_depth THEN Truncated
    ELSE Info(element,
              IF ~t[element].listable THEN <<>>
              ELSE [k \in 1..Len(t[element].kids) |->
                      _traverse_ui_tree(t, t[element].kids[k], max_depth,
                                        current_depth + 1)])

RECURSIVE get_ui_tree(_, _, _, _)
\* UIInspector.get_ui_tree: the same walk; `if child_info:` drops nothing,
\* a dictionary with keys being truthy
get_ui_tree(t, element, max_depth, current_depth) ==
    IF current_depth >= max_depth THEN Truncated
    ELSE Info(element,
              IF ~t[element].listable THEN <<>>
              ELSE [k \in 1..Len(t[element].kids) |->
                      get_ui_tree(t, t[element].kids[k], max_depth,
                                  current_depth + 1)])

\* `if child_structure:` an empty dictionary is not appended
IsKept(child_structure) == child_structure # Empty

RECURSIVE get_ui_tree_structure(_, _, _, _)
\* ProSeriesW2Automation.get_ui_tree_structure: {} beyond max_depth and for
\* an element whose attributes cannot be read; children are read only above
\* max_depth, the first twenty of them, and the empty ones are left out
get_ui_tree_structure(t, element, depth, max_depth) ==
    IF depth > max_depth THEN Empty
    ELSE IF ~t[element].readable THEN Empty
    ELSE Info(element,
              IF depth < max_depth /\ t[element].listable
              THEN LET children == FirstN(t[element].kids, ChildLimit)
                   IN SelectSeq(
                        [k \in 1..Len(children) |->
                            get_ui_tree_structure(t, children[k], depth + 1,
                                                  max_depth)],
                        IsKept)
              ELSE <<>>)

\* ------------------------------------------------- backend call records
\* One record per call made on the accessibility backend while entry number
\* act of the oracle's answer is processed; ok = FALSE: the call raised.
Op(act, name, e, ok) == [act |-> act, op |-> name, node |-> e, ok |-> ok]

\* which call of a sequence raises first (0: none does); in the keystroke
\* fallback of set_text the failure injected is that of the typing itself
FailPoints == 0..3
FallbackPoints == {0, 3}

\* the calls names[1], names[2], ... on e, up to and including the first one
\* that raises
Calls(act, e, names, p) ==
    [k \in 1..(IF p = 0 \/ p > Len(names) THEN Len(names) ELSE p) |->
        Op(act, names[k], e, k # p)]

Raised(names, p) == p # 0 /\ p <= Len(names)

\* what processing one entry did: backend calls, the outcome the code logs
\* or prints for it, and the field contents afterwards
Effect(ops, status, fv) == [ops |-> ops, status |-> status, fv |-> fv]

\* ------------------------------------------- ProSeriesW2Automation actions
\* _set_text_action whose except clause logs the failure and tries nothing
\* else
_set_text_action_no_fallback(t, fv, act, target, value, p, q) ==
    LET element == _find_element_by_target(t, target)
        resolve == <<Op(act, "resolve", element, TRUE)>>
        names == <<"set_focus", "clear", "set_edit_text">>
    IN IF element = NotFound
       THEN Effect(resolve, "skipped_not_found", fv)
       ELSE Effect(resolve \o Calls(act, element, names, p),
                   IF Raised(names, p) THEN "failed" ELSE "filled",
                   IF ~Raised(names, p) THEN [fv EXCEPT ![element] = value]
                   ELSE IF p = 3 THEN [fv EXCEPT ![element] = <<>>]
                   ELSE fv)

_set_text_action(t, fv, act, target, value, p, q) ==
    LET element == _find_element_by_target(t, target)
        resolve == <<Op(act, "resolve", element, TRUE)>>
        names == <<"set_focus", "clear", "set_edit_text">>
        fv1 == IF ~Raised(names, p) THEN [fv EXCEPT ![element] = value]
               ELSE IF p = 3 THEN [fv EXCEPT ![element] = <<>>]
               ELSE fv
        keys == <<"set_focus", "select_all", "type_keys">>
    IN IF element = NotFound
       THEN Effect(resolve, "skipped_not_found", fv)
       ELSE IF ~Raised(names, p)
       THEN Effect(resolve \o Calls(act, element, names, p), "filled", fv1)
       ELSE Effect(resolve \o Calls(act, element, names, p)
                       \o Calls(act, element, keys, q),
                   IF Raised(keys, q) THEN "failed" ELSE "filled",
                   IF Raised(keys, q) THEN fv1
                   ELSE [fv1 EXCEPT ![element] = value])

\* _click_action without its `if element:` test
_click_action_unguarded(t, fv, act, target, p) ==
    LET element == _find_element_by_target(t, target)
        resolve == <<Op(act, "resolve", element, TRUE)>>
        names == <<"click_input">>
    IN Effect(resolve \o Calls(act, element, names, p),
              IF Raised(names, p) THEN "failed" ELSE "filled", fv)

_click_action(t, fv, act, target, p) ==
    LET element == _find_element_by_target(t, target)
        resolve == <<Op(act, "resolve", element, TRUE)>>
        names == <<"click_input">>
    IN IF element = NotFound
       THEN Effect(resolve, "skipped_not_found", fv)
       ELSE Effect(resolve \o Calls(act, element, names, p),
                   IF Raised(names, p) THEN "failed" ELSE "filled", fv)

_select_action(t, fv, act, target, value, p) ==
    LET element == _find_element_by_target(t, target)
        resolve == <<Op(act, "resolve", element, TRUE)>>
        names == <<"select">>
    IN IF element = NotFound
       THEN Effect(resolve, "skipped_not_found", fv)
       ELSE Effect(resolve \o Calls(act, element, names, p),
                   IF Raised(names, p) THEN "failed" ELSE "filled",
                   IF Raised(names, p) THEN fv
                   ELSE [fv EXCEPT ![element] = value])

\* main_window.type_keys("{TAB}") on the main window, node 1
_tab_action(fv, act, p) ==
    LET names == <<"type_keys_tab">>
    IN Effect(Calls(act, 1, names, p),
              IF Raised(names, p) THEN "failed" ELSE "filled", fv)

\* float(value): a value that is no number raises
ParsesAsFloat(value) == value \in {<<"2">>, <<"-", "1">>}

\* durations are counted in tenths of a second
AsFloat(value) == IF value = <<"-", "1">> THEN 0 - 10 ELSE 20

\* the 1.0 of `float(value) if value else 1.0`
DefaultWait == 10

\* a wait whose default is no wait at all
wait_time_default_zero(value) == IF value # <<>> THEN AsFloat(value) ELSE 0

\* wait_time = float(value) if value else 1.0
wait_time(value) == IF value # <<>> THEN AsFloat(value) ELSE DefaultWait

\* time.sleep(wait_time): ok = FALSE when it raises instead of suspending
Sleep(act, secs, ok) ==
    [act |-> act, op |-> "sleep", node |-> NotFound, ok |-> ok,
     secs |-> secs]

\* the wait branch: float() raises on a value that is no number, and
\* time.sleep raises ValueError on a negative length; both land in the
\* except clause of execute_actions
wait_action(fv, act, value) ==
    IF value # <<>> /\ ~ParsesAsFloat(value)
    THEN Effect(<<>>, "failed", fv)
    ELSE IF wait_time(value) < 0
    THEN Effect(<<Sleep(act, wait_time(value), FALSE)>>, "failed", fv)
    ELSE Effect(<<Sleep(act, wait_time(value), TRUE)>>, "filled", fv)

\* the backend calls that can raise while an action is executed: three in
\* _set_text_action, one in _click_action, _select_action and _tab_action,
\* none in the other branches
W2FailPoints(action) ==
    IF ~action.wf THEN {0}
    ELSE IF action.type = "set_text" THEN FailPoints
    ELSE IF action.type \in {"click", "select", "tab"} THEN {0, 1}
    ELSE {0}

\* the keystroke fallback runs only after a call of _set_text_action has
\* raised
W2FallbackPoints(action, p) ==
    IF action.wf /\ action.type = "set_text" /\ p # 0 THEN FallbackPoints
    ELSE {0}

\* an if/elif chain closed by an else that raises
no_branch_raises(fv) == Effect(<<>>, "failed", fv)

\* the if/elif chain of execute_actions has no else: a type that no branch
\* names runs no branch, and nothing is logged about it
no_branch(fv) == Effect(<<>>, "ignored", fv)

\* one pass through the body of the for loop of execute_actions.  An entry
\* that is no dictionary raises at action.get and an unparseable wait value
\* raises at float(): both land in the except clause, which logs the failure.
execute_action(t, fv, act, action, p, q) ==
    IF ~action.wf THEN Effect(<<>>, "failed", fv)
    ELSE IF action.type = "set_text"
    THEN _set_text_action(t, fv, act, action.target, action.value, p, q)
    ELSE IF action.type = "click"
    THEN _click_action(t, fv, act, action.target, p)
    ELSE IF action.type = "select"
    THEN _select_action(t, fv, act, action.target, action.value, p)
    ELSE IF action.type = "tab"
    THEN _tab_action(fv, act, p)
    ELSE IF action.type = "wait"
    THEN wait_action(fv, act, action.value)
    ELSE no_branch(fv)

\* a loop that walks the entries from the last to the first
enumerate_reversed(entries, i) ==
    [act |-> Len(entries) - i, entry |-> entries[Len(entries) - i]]

\* enumerate(actions) / the for loop over the mappings: the entry handled in
\* the pass that follows i completed passes
enumerate(entries, i) == [act |-> i + 1, entry |-> entries[i + 1]]

\* `break` in place of `continue` in the except clause
next_pass_break(entries, i, status) ==
    IF status = "failed" THEN Len(entries) ELSE i + 1

\* `continue`: whatever the outcome of a pass, the loop goes on to the next
\* entry
next_pass(entries, i, status) == i + 1

\* ------------------------------------------------ AIFormAutomation actions
\* fill_field returning True from its except clause too
fill_field_always_true(fv, act, element, value, p) ==
    LET names == <<"AXFocused", "AXValue", "Press">>
    IN Effect(Calls(act, element, names, p), "filled",
              IF Raised(names, p) /\ p < 3 THEN fv
              ELSE [fv EXCEPT ![element] = value])

\* element.AXFocused = True; element.AXValue = str(value); element.Press():
\* True unless one of them raises
fill_field(fv, act, element, value, p) ==
    LET names == <<"AXFocused", "AXValue", "Press">>
    IN Effect(Calls(act, element, names, p),
              IF Raised(names, p) THEN "failed" ELSE "filled",
              IF Raised(names, p) /\ p < 3 THEN fv
              ELSE [fv EXCEPT ![element] = value])

\* dict.get: None for a missing key
Get(d, k) == IF k \in DOMAIN d THEN d[k] ELSE None

\* the criteria built from one mapping: a key only for a non-empty hint
build_criteria(item) ==
    [key \in {k \in {"title", "identifier"} :
                Truthy(IF k = "title" THEN item.ui_title
                       ELSE item.ui_identifier)} |->
        IF key = "title" THEN item.ui_title ELSE item.ui_identifier]

\* the loop body without its `if value is None: continue`
fill_item_no_value_test(t, fv, form_data, act, item, p) ==
    LET value == Get(form_data, item.data_field)
        element == find_element_by_criteria(t, build_criteria(item))
        resolve == <<Op(act, "resolve", element, TRUE)>>
        filled == fill_field(fv, act, element, value, p)
    IN IF element = NotFound
       THEN Effect(resolve, "skipped_not_found", fv)
       ELSE Effect(resolve \o filled.ops, filled.status, filled.fv)

\* one pass through the body of the for loop of fill_form, for an item that
\* is a dictionary
fill_item(t, fv, form_data, act, item, p) ==
    LET value == Get(form_data, item.data_field)
        element == find_element_by_criteria(t, build_criteria(item))
        resolve == <<Op(act, "resolve", element, TRUE)>>
        filled == fill_field(fv, act, element, value, p)
    IN IF value = None THEN Effect(<<>>, "dropped", fv)
       ELSE IF element = NotFound
       THEN Effect(resolve, "skipped_not_found", fv)
       ELSE Effect(resolve \o filled.ops, filled.status, filled.fv)

\* ------------------------------------------------------------------- state
VARIABLES
    tree,           \* the live accessibility tree
    query,          \* the last resolution asked for: kind, criteria, target
    result,         \* the node it returned, or NotFound
    prog,           \* which flow runs: "w2" fill_w2_form, "ai" main + fill_form
    pc,             \* where the flow stands
    steps,          \* the form-level steps taken so far, in order
    plan,           \* the oracle's answer: action list (w2) / mappings (ai)
    idx,            \* passes of the execution loop completed
    oplog,          \* the backend calls made by the execution loop, in order
    outcome,        \* what was logged / printed per processed entry
    fieldval,       \* the text each node holds
    success_count,  \* fill_form's counter
    ret,            \* what the flow returned to its caller
    bpc,            \* where the batch loop stands; "single": one form, no batch
    forms,          \* number of records in the batch input
    form,           \* number of the record being processed (the loop's i)
    attempts,       \* the records a fill was started for, in order
    results         \* fill_multiple_w2_forms' counters

vars == <<tree, query, result, prog, pc, steps, plan, idx, oplog, outcome,
          fieldval, success_count, ret, bpc, forms, form, attempts, results>>

batchvars == <<bpc, forms, form, attempts, results>>

flowvars == <<prog, pc, steps, plan, idx, oplog, outcome, fieldval,
              success_count, ret, bpc, forms, form, attempts, results>>

NoReturn == [returned |-> FALSE, success |-> FALSE]
\* results = {'success': 0, 'failed': 0}
NoResults == [success |-> 0, failed |-> 0]
Return(b) == [returned |-> TRUE, success |-> b]

\* ------------------------------------------------------ resolution alone
CriteriaValues == {<<>>, <<"a">>}
Targets == {<<>>, <<"a">>}

\* criteria dictionaries over the keys fill_form can build
CriteriaSet ==
    UNION {[keys -> CriteriaValues] : keys \in SUBSET {"title", "identifier"}}

NoQuery == [kind |-> "none", criteria |-> <<>>, target |-> <<>>]

InitResolve ==
    /\ IsTree(tree)
    /\ query = NoQuery
    /\ result = NotFound
    /\ prog = "none"
    /\ pc = "idle"
    /\ steps = <<>>
    /\ plan = <<>>
    /\ idx = 0
    /\ oplog = <<>>
    /\ outcome = <<>>
    /\ fieldval = [e \in DOMAIN tree |-> <<"o">>]
    /\ success_count = 0
    /\ ret = NoReturn
    /\ bpc = "single"
    /\ forms = 1
    /\ form = 1
    /\ attempts = <<>>
    /\ results = NoResults

FindByCriteria ==
    \E criteria \in CriteriaSet :
        /\ query.kind = "none"
        /\ query' = [kind |-> "criteria", criteria |-> criteria,
                     target |-> <<>>]
        /\ result' = find_element_by_criteria(tree, criteria)
        /\ UNCHANGED <<tree, flowvars>>

FindByTarget ==
    \E target \in Targets :
        /\ query.kind = "none"
        /\ query' = [kind |-> "target", criteria |-> <<>>, target |-> target]
        /\ result' = _find_element_by_target(tree, target)
        /\ UNCHANGED <<tree, flowvars>>

NextResolve == FindByCriteria \/ FindByTarget

SpecResolve == InitResolve /\ [][NextResolve]_vars

\* ------------------------------------------------------- the form flows
\* the form on screen: a window titled "b" with the field "a" and the field
\* "b" whose identifier is "a"
FormTree ==
    MkTree(3, [i \in 2..3 |-> 1],
           [title |-> <<"b">>, identifier |-> None, ctype |-> "Window",
            visible |-> TRUE],
           [i \in 2..3 |->
               IF i = 2
               THEN [title |-> <<"a">>, identifier |-> None,
                     ctype |-> "Edit", visible |-> TRUE]
               ELSE [title |-> <<"b">>, identifier |-> <<"a">>,
                     ctype |-> "Edit", visible |-> TRUE]])

\* the same two fields inside an untitled group of a window titled "w"
GroupedFormTree ==
    MkTree(4, [i \in 2..4 |-> IF i = 2 THEN 1 ELSE 2],
           [title |-> <<"w">>, identifier |-> None, ctype |-> "Window",
            visible |-> TRUE],
           [i \in 2..4 |->
               IF i = 2
               THEN [title |-> None, identifier |-> None,
                     ctype |-> "Group", visible |-> TRUE]
               ELSE IF i = 3
               THEN [title |-> <<"a">>, identifier |-> None,
                     ctype |-> "Edit", visible |-> TRUE]
               ELSE [title |-> <<"b">>, identifier |-> <<"a">>,
                     ctype |-> "Edit", visible |-> TRUE]])

\* the forms the records of a batch are entered in
FormTrees(p) == IF p = "ai" THEN {FormTree, GroupedFormTree} ELSE {FormTree}

\* the caller's values
FormData == [f1 |-> <<"v">>, f2 |-> <<"w">>]

NotADict == [wf |-> FALSE]

\* entries of an action list
W2Entries ==
    [wf : {TRUE}, type : {"set_text", "click", "select"},
     target : {<<"a">>, <<"c">>}, value : {<<"v">>}]
    \cup [wf : {TRUE}, type : {"tab", "hover"}, target : {<<>>},
          value : {<<>>}]
    \cup [wf : {TRUE}, type : {"wait"}, target : {<<>>},
          value : {<<>>, <<"x">>}]
    \cup {NotADict}

\* entries of a "mappings" list
AiEntries ==
    [wf : {TRUE}, data_field : {"f1"}, ui_title : {<<"a">>, <<"c">>},
     ui_identifier : {<<>>}]
    \cup [wf : {TRUE}, data_field : {"f1"}, ui_title : {<<>>},
          ui_identifier : {<<>>, <<"a">>}]
    \cup [wf : {TRUE}, data_field : {"f0"}, ui_title : {<<"a">>},
          ui_identifier : {<<>>}]
    \cup {NotADict}

\* an action whose value is the empty string
W2EmptyValued ==
    [wf : {TRUE}, type : {"set_text"}, target : {<<"a">>}, value : {<<>>}]

\* the mapping of the second value to the field titled "b" with the
\* identifier "a"
AiSecondField ==
    [wf : {TRUE}, data_field : {"f2"}, ui_title : {<<"b">>},
     ui_identifier : {<<"a">>}]

\* a wait for a negative time
W2NegativeWait ==
    [wf : {TRUE}, type : {"wait"}, target : {<<>>}, value : {<<"-", "1">>}]

Lists(S) == UNION {[1..n -> S] : n \in 0..MaxPlan}

\* a fill call is running: on its own, or for a record of a batch
InForm == bpc \in {"single", "form"}

\* the answers the oracle may give: long ones over the entries above for a
\* single form, shorter ones over a few more kinds of entry while a batch
\* runs
PlanLimit == IF bpc = "single" THEN MaxPlan ELSE MaxBatchPlan

\* the entries of the answers given while a batch runs
W2BatchEntries ==
    {e \in W2Entries :
        /\ e.wf
        /\ \/ e.type = "set_text" /\ e.target = <<"a">>
           \/ e.type = "click" /\ e.target = <<"c">>
           \/ e.type = "wait"}
    \cup W2EmptyValued \cup W2NegativeWait

AiBatchEntries ==
    {m \in AiEntries : ~m.wf \/ m.ui_title = <<"a">>} \cup AiSecondField

W2Answers ==
    {a \in Lists(IF bpc = "single" THEN W2Entries ELSE W2BatchEntries) :
        Len(a) <= PlanLimit}

AiAnswers ==
    {m \in Lists(IF bpc = "single" THEN AiEntries ELSE AiBatchEntries) :
        Len(m) <= PlanLimit}

\* _convert_ui_tree_to_text yields a line per visible node that has a name
\* or an automation id; no line, or a tree that cannot be read, gives ""
get_focused_form_structure(t, readable) ==
    IF readable
       /\ \E e \in DOMAIN t :
            t[e].visible /\ (Truthy(t[e].title) \/ Truthy(t[e].identifier))
    THEN "text" ELSE ""

Init ==
    /\ tree = FormTree
    /\ query = NoQuery
    /\ result = NotFound
    /\ prog \in {"w2", "ai"}
    /\ pc = "idle"
    /\ steps = <<>>
    /\ plan = <<>>
    /\ idx = 0
    /\ oplog = <<>>
    /\ outcome = <<>>
    /\ fieldval = [e \in DOMAIN tree |-> <<"o">>]
    /\ success_count = 0
    /\ ret = NoReturn
    /\ bpc = "single"
    /\ forms = 1
    /\ form = 1
    /\ attempts = <<>>
    /\ results = NoResults

\* connect_to_proseries, first step of fill_w2_form
W2Connect ==
    /\ prog = "w2" /\ pc = "idle" /\ InForm
    /\ \E ok \in BOOLEAN :
        IF ok
        THEN /\ pc' = "connected"
             /\ steps' = Append(steps, "connect_ok")
             /\ ret' = ret
        ELSE /\ pc' = "failed"
             /\ steps' = Append(steps, "connect_failed")
             /\ ret' = Return(FALSE)
    /\ UNCHANGED <<batchvars, tree, query, result, prog,
                   plan, idx, oplog, outcome,
                   fieldval, success_count>>

\* get_focused_form_structure and the test on its result
W2Snapshot ==
    /\ prog = "w2" /\ pc = "connected"
    /\ \E readable \in BOOLEAN :
        IF get_focused_form_structure(tree, readable) # ""
        THEN /\ pc' = "snapshot"
             /\ steps' = Append(steps, "snapshot_ok")
             /\ ret' = ret
        ELSE /\ pc' = "failed"
             /\ steps' = Append(steps, "snapshot_failed")
             /\ ret' = Return(FALSE)
    /\ UNCHANGED <<batchvars, tree, query, result, prog,
                   plan, idx, oplog, outcome,
                   fieldval, success_count>>

\* ask_gemini_for_actions and the test on its result: a failed call and an
\* answer that does not parse both come back as the empty list
W2AskOracle ==
    /\ prog = "w2" /\ pc = "snapshot"
    /\ \E actions \in W2Answers :
        /\ IF actions # <<>>
           THEN /\ pc' = "executing"
                /\ steps' = Append(steps, "oracle_ok")
                /\ plan' = actions
                /\ ret' = ret
           ELSE /\ pc' = "failed"
                /\ steps' = Append(steps, "oracle_failed")
                /\ plan' = plan
                /\ ret' = Return(FALSE)
    /\ UNCHANGED <<batchvars, tree, query, result, prog,
                   idx, oplog, outcome, fieldval,
                   success_count>>

\* the loop of execute_actions with the elements looked up in the form as
\* it was when the form was opened, not as it is now
W2ExecuteOnOpenedForm ==
    /\ prog = "w2" /\ pc = "executing" /\ idx < Len(plan)
    /\ \E p \in W2FailPoints(enumerate(plan, idx).entry) :
       \E q \in W2FallbackPoints(enumerate(plan, idx).entry, p) :
        LET e == enumerate(plan, idx)
            eff == execute_action(FormTree, fieldval, e.act, e.entry, p, q)
        IN /\ oplog' = oplog \o eff.ops
           /\ outcome' = Append(outcome,
                                [act |-> e.act, status |-> eff.status])
           /\ fieldval' = eff.fv
           /\ idx' = next_pass(plan, idx, eff.status)
    /\ UNCHANGED <<batchvars, tree, query, result, prog,
                   pc, steps, plan,
                   success_count, ret>>

\* one pass of the for loop of execute_actions
W2Execute ==
    /\ prog = "w2" /\ pc = "executing" /\ idx < Len(plan)
    /\ \E p \in W2FailPoints(enumerate(plan, idx).entry) :
       \E q \in W2FallbackPoints(enumerate(plan, idx).entry, p) :
        LET e == enumerate(plan, idx)
            eff == execute_action(tree, fieldval, e.act, e.entry, p, q)
        IN /\ oplog' = oplog \o eff.ops
           /\ outcome' = Append(outcome,
                                [act |-> e.act, status |-> eff.status])
           /\ fieldval' = eff.fv
           /\ idx' = next_pass(plan, idx, eff.status)
    /\ UNCHANGED <<batchvars, tree, query, result, prog,
                   pc, steps, plan,
                   success_count, ret>>

\* the loop is over: execute_actions returns True and fill_w2_form passes
\* it on
W2Finish ==
    /\ prog = "w2" /\ pc = "executing" /\ idx >= Len(plan)
    /\ pc' = "done"
    /\ ret' = Return(TRUE)
    /\ UNCHANGED <<batchvars, tree, query, result, prog,
                   steps, plan, idx, oplog,
                   outcome, fieldval, success_count>>

\* connect_to_app, called by main / batch_fill_forms before fill_form
AiConnect ==
    /\ prog = "ai" /\ pc = "idle" /\ bpc \in {"single", "start"}
    /\ \E ok \in BOOLEAN :
        IF ok
        THEN /\ pc' = "connected"
             /\ steps' = Append(steps, "connect_ok")
        ELSE /\ pc' = "failed"
             /\ steps' = Append(steps, "connect_failed")
    /\ UNCHANGED <<batchvars, tree, query, result, prog,
                   plan, idx, oplog, outcome,
                   fieldval, success_count, ret>>

\* get_ui_structure: a tree that cannot be read comes back as an empty
\* structure, and fill_form goes on with it
AiSnapshot ==
    /\ prog = "ai" /\ pc = "connected" /\ InForm
    /\ \E readable \in BOOLEAN :
        steps' = Append(steps, IF readable THEN "snapshot_ok"
                               ELSE "snapshot_failed")
    /\ pc' = "snapshot"
    /\ UNCHANGED <<batchvars, tree, query, result, prog,
                   plan, idx, oplog, outcome,
                   fieldval, success_count, ret>>

\* ask_ai_to_map_fields and the test on its result: a failed call and an
\* answer that does not parse both come back as {}
AiAskOracle ==
    /\ prog = "ai" /\ pc = "snapshot"
    /\ \E failed \in BOOLEAN, mappings \in AiAnswers :
        /\ IF ~failed
           THEN /\ pc' = "executing"
                /\ steps' = Append(steps, "oracle_ok")
                /\ plan' = mappings
                /\ ret' = ret
           ELSE /\ pc' = "failed"
                /\ steps' = Append(steps, "oracle_failed")
                /\ plan' = plan
                /\ ret' = Return(FALSE)
    /\ UNCHANGED <<batchvars, tree, query, result, prog,
                   idx, oplog, outcome, fieldval,
                   success_count>>

\* one pass of the for loop of fill_form; item.get on an item that is no
\* dictionary raises, and nothing in fill_form or its callers catches it
AiFill ==
    /\ prog = "ai" /\ pc = "executing" /\ idx < Len(plan)
    /\ \E p \in FailPoints :
        LET e == enumerate(plan, idx)
            eff == fill_item(tree, fieldval, FormData, e.act, e.entry, p)
        IN IF ~e.entry.wf
           THEN /\ pc' = "raised"
                /\ outcome' = Append(outcome,
                                     [act |-> e.act, status |-> "raised"])
                /\ UNCHANGED <<oplog, fieldval, idx, success_count>>
           ELSE /\ pc' = pc
                /\ oplog' = oplog \o eff.ops
                /\ outcome' = Append(outcome,
                                     [act |-> e.act, status |-> eff.status])
                /\ fieldval' = eff.fv
                /\ idx' = next_pass(plan, idx, eff.status)
                /\ success_count' = IF eff.status = "filled"
                                    THEN success_count + 1
                                    ELSE success_count
    /\ UNCHANGED <<batchvars, tree, query, result, prog, steps, plan, ret>>

\* the loop is over: fill_form returns success_count > 0
AiFinish ==
    /\ prog = "ai" /\ pc = "executing" /\ idx >= Len(plan)
    /\ pc' = "done"
    /\ ret' = Return(success_count > 0)
    /\ UNCHANGED <<batchvars, tree, query, result, prog,
                   steps, plan, idx, oplog,
                   outcome, fieldval, success_count>>

Next ==
    \/ W2Connect \/ W2Snapshot \/ W2AskOracle \/ W2Execute \/ W2Finish
    \/ AiConnect \/ AiSnapshot \/ AiAskOracle \/ AiFill \/ AiFinish

Spec == Init /\ [][Next]_vars

\* --------------------------------------------------------------- batches
\* fill_multiple_w2_forms calls fill_w2_form per record; batch_fill_forms
\* connects once and calls fill_form per record
InitBatch ==
    /\ prog \in {"w2", "ai"}
    /\ tree \in FormTrees(prog)
    /\ query = NoQuery
    /\ result = NotFound
    /\ pc = "idle"
    /\ steps = <<>>
    /\ plan = <<>>
    /\ idx = 0
    /\ oplog = <<>>
    /\ outcome = <<>>
    /\ fieldval = [e \in DOMAIN tree |-> <<"o">>]
    /\ success_count = 0
    /\ ret = NoReturn
    /\ bpc = (IF prog = "w2" THEN "loop" ELSE "start")
    /\ forms \in 1..MaxForms
    /\ form = 0
    /\ attempts = <<>>
    /\ results = NoResults

\* the call of the fill function for the next record: a fresh call on the
\* next blank form, entered at `first`
StartFill(first) ==
    /\ form' = form + 1
    /\ attempts' = Append(attempts, form + 1)
    /\ bpc' = "form"
    /\ pc' = first
    /\ steps' = <<>>
    /\ plan' = <<>>
    /\ idx' = 0
    /\ oplog' = <<>>
    /\ outcome' = <<>>
    /\ fieldval' = [e \in DOMAIN tree |-> <<"o">>]
    /\ success_count' = 0
    /\ ret' = NoReturn
    /\ UNCHANGED <<tree, query, result, prog, forms, results>>

\* for i, w2_data in enumerate(w2_data_list): self.fill_w2_form(w2_data)
W2BatchNext ==
    /\ prog = "w2" /\ bpc = "loop" /\ form < forms
    /\ StartFill("idle")

\* the counting of fill_multiple_w2_forms without its else branch
W2BatchRecordSuccessOnly ==
    /\ prog = "w2" /\ bpc = "form" /\ ret.returned
    /\ results' = IF ret.success
                  THEN [results EXCEPT !.success = @ + 1]
                  ELSE results
    /\ bpc' = IF form < forms THEN "pacing" ELSE "loop"
    /\ UNCHANGED <<tree, query, result, prog, pc, steps, plan, idx, oplog,
                   outcome, fieldval, success_count, ret, forms, form,
                   attempts>>

\* fill_w2_form came back: one of the two counters goes up, then the wait
\* before the next record unless this was the last
W2BatchRecord ==
    /\ prog = "w2" /\ bpc = "form" /\ ret.returned
    /\ results' = IF ret.success
                  THEN [results EXCEPT !.success = @ + 1]
                  ELSE [results EXCEPT !.failed = @ + 1]
    /\ bpc' = IF form < forms THEN "pacing" ELSE "loop"
    /\ UNCHANGED <<tree, query, result, prog, pc, steps, plan, idx, oplog,
                   outcome, fieldval, success_count, ret, forms, form,
                   attempts>>

\* time.sleep(3) between records; nothing here catches KeyboardInterrupt
W2BatchPace ==
    /\ prog = "w2" /\ bpc = "pacing"
    /\ \E interrupted \in BOOLEAN :
        bpc' = IF interrupted THEN "aborted" ELSE "loop"
    /\ UNCHANGED <<tree, query, result, prog, pc, steps, plan, idx, oplog,
                   outcome, fieldval, success_count, ret, forms, form,
                   attempts, results>>

\* return results
W2BatchReturn ==
    /\ prog = "w2" /\ bpc = "loop" /\ form >= forms
    /\ bpc' = "returned"
    /\ UNCHANGED <<tree, query, result, prog, pc, steps, plan, idx, oplog,
                   outcome, fieldval, success_count, ret, forms, form,
                   attempts, results>>

\* if not automation.connect_to_app(): ... return
AiBatchNoConnection ==
    /\ prog = "ai" /\ bpc = "start" /\ pc = "failed"
    /\ bpc' = "returned"
    /\ UNCHANGED <<tree, query, result, prog, pc, steps, plan, idx, oplog,
                   outcome, fieldval, success_count, ret, forms, form,
                   attempts, results>>

\* the loop of batch_fill_forms with `pass` for `break` in the handler of
\* KeyboardInterrupt
AiBatchNextAfterInterrupt ==
    /\ prog = "ai"
    /\ \/ bpc = "start" /\ pc = "connected"
       \/ bpc \in {"loop", "stopped"} /\ form < forms
    /\ StartFill("connected")

\* for i, w2_data in enumerate(w2_records, 1): automation.fill_form(...)
AiBatchNext ==
    /\ prog = "ai"
    /\ \/ bpc = "start" /\ pc = "connected"
       \/ bpc = "loop" /\ form < forms
    /\ StartFill("connected")

\* fill_form came back: its result is printed, then the wait before the
\* next record unless this was the last
AiBatchRecord ==
    /\ prog = "ai" /\ bpc = "form" /\ ret.returned
    /\ bpc' = IF form < forms THEN "pacing" ELSE "loop"
    /\ UNCHANGED <<tree, query, result, prog, pc, steps, plan, idx, oplog,
                   outcome, fieldval, success_count, ret, forms, form,
                   attempts, results>>

\* fill_form raised: nothing in batch_fill_forms catches it
AiBatchRaised ==
    /\ prog = "ai" /\ bpc = "form" /\ pc = "raised"
    /\ bpc' = "aborted"
    /\ UNCHANGED <<tree, query, result, prog, pc, steps, plan, idx, oplog,
                   outcome, fieldval, success_count, ret, forms, form,
                   attempts, results>>

\* try: time.sleep(delay) except KeyboardInterrupt: ... break; after the
\* break ("stopped") the function prints its closing lines and returns
AiBatchPace ==
    /\ prog = "ai" /\ bpc = "pacing"
    /\ \E interrupted \in BOOLEAN :
        bpc' = IF interrupted THEN "stopped" ELSE "loop"
    /\ UNCHANGED <<tree, query, result, prog, pc, steps, plan, idx, oplog,
                   outcome, fieldval, success_count, ret, forms, form,
                   attempts, results>>

\* the loop has gone through every record
AiBatchReturn ==
    /\ prog = "ai" /\ bpc = "loop" /\ form >= forms
    /\ bpc' = "returned"
    /\ UNCHANGED <<tree, query, result, prog, pc, steps, plan, idx, oplog,
                   outcome, fieldval, success_count, ret, forms, form,
                   attempts, results>>

\* Ctrl+C while entries of the plan are still to be executed, between two
\* passes of the execution loop (time.sleep(0.3)):
\* KeyboardInterrupt is no Exception, so neither the loop's except clause
\* nor fill_w2_form's catches it, and the batch loops do not either
Interrupt ==
    /\ bpc = "form" /\ pc = "executing" /\ idx < Len(plan)
    /\ pc' = "interrupted"
    /\ bpc' = "aborted"
    /\ UNCHANGED <<tree, query, result, prog, steps, plan, idx, oplog,
                   outcome, fieldval, success_count, ret, forms, form,
                   attempts, results>>

NextBatch ==
    \/ Next
    \/ W2BatchNext \/ W2BatchRecord \/ W2BatchPace \/ W2BatchReturn
    \/ AiBatchNoConnection \/ AiBatchNext \/ AiBatchRecord
    \/ AiBatchRaised \/ AiBatchPace \/ AiBatchReturn
    \/ Interrupt

SpecBatch == InitBatch /\ [][NextBatch]_vars

\* ------------------------------------------------- scans of ailing trees
\* Resolution and snapshot on trees that are deep, wide, or have nodes the
\* backend cannot read, cannot enumerate, or reports disabled or hidden.
MaxChain == 11          \* nodes of a chain of nested containers

Plain(title, ctype) ==
    [title |-> title, identifier |-> None, ctype |-> ctype, visible |-> TRUE]

\* a window titled "b", groups titled "b" nested in one another, and the
\* field "a" in the innermost: node e lies e - 1 levels below the window
ChainTree(n) ==
    MkTree(n, [i \in 2..n |-> i - 1], Plain(<<"b">>, "Window"),
           [i \in 2..n |-> IF i = n THEN Plain(<<"a">>, "Edit")
                            ELSE Plain(<<"b">>, "Group")])

\* a window with one child more than ChildLimit: labels "b" and, last, the
\* field "a"
WideTree ==
    [e \in 1..(ChildLimit + 2) |->
        [title |-> IF e = ChildLimit + 2 THEN <<"a">> ELSE <<"b">>,
         identifier |-> None,
         ctype |-> IF e = 1 THEN "Window"
                   ELSE IF e = ChildLimit + 2 THEN "Edit" ELSE "Text",
         visible |-> TRUE, enabled |-> TRUE, readable |-> TRUE,
         listable |-> TRUE,
         kids |-> IF e = 1 THEN [k \in 1..(ChildLimit + 1) |-> k + 1]
                  ELSE <<>>]]

\* a window titled "w" with the labels "a" and "ab"
LabelTree ==
    MkTree(3, [i \in 2..3 |-> 1], Plain(<<"w">>, "Window"),
           [i \in 2..3 |-> IF i = 2 THEN Plain(<<"a">>, "Text")
                            ELSE Plain(<<"a", "b">>, "Text")])

Healths == {"ok", "unreadable", "unlistable", "disabled", "hidden"}

\* the tree t with the nodes in the states of health h
Ailing(t, h) ==
    [e \in DOMAIN t |->
        IF e \in DOMAIN h
        THEN [t[e] EXCEPT !.readable = (h[e] # "unreadable"),
                          !.listable = (h[e] # "unlistable"),
                          !.enabled = (h[e] # "disabled"),
                          !.visible = (@ /\ h[e] # "hidden")]
        ELSE t[e]]

ScanTrees ==
    {Ailing(t, h) : t \in {FormTree, GroupedFormTree, LabelTree},
                    h \in [2..3 -> Healths]}
    \cup {ChainTree(n) : n \in 2..MaxChain}
    \cup {WideTree}

InitScan ==
    /\ tree \in ScanTrees
    /\ query = NoQuery
    /\ result = NotFound
    /\ prog = "none"
    /\ pc = "idle"
    /\ steps = <<>>
    /\ plan = <<>>
    /\ idx = 0
    /\ oplog = <<>>
    /\ outcome = <<>>
    /\ fieldval = [e \in DOMAIN tree |-> <<"o">>]
    /\ success_count = 0
    /\ ret = NoReturn
    /\ bpc = "single"
    /\ forms = 1
    /\ form = 1
    /\ attempts = <<>>
    /\ results = NoResults

Snapshot(kind) == [kind |-> kind, criteria |-> <<>>, target |-> <<>>]

\* get_ui_structure(): the focused window, max_depth 6
TakeAiStructure ==
    /\ query.kind = "none"
    /\ query' = Snapshot("get_ui_structure")
    /\ result' = _traverse_ui_tree(tree, 1, AiSnapshotDepth, 0)
    /\ UNCHANGED <<tree, flowvars>>

\* UIInspector.get_ui_tree(): max_depth 10
TakeInspectorTree ==
    /\ query.kind = "none"
    /\ query' = Snapshot("get_ui_tree")
    /\ result' = get_ui_tree(tree, 1, InspectorDepth, 0)
    /\ UNCHANGED <<tree, flowvars>>

\* get_ui_tree_structure(max_depth=4), as get_focused_form_structure calls it
TakeW2Structure ==
    /\ query.kind = "none"
    /\ query' = Snapshot("get_ui_tree_structure")
    /\ result' = get_ui_tree_structure(tree, 1, 0, FocusedFormDepth)
    /\ UNCHANGED <<tree, flowvars>>

NextScan ==
    \/ FindByCriteria \/ FindByTarget
    \/ TakeAiStructure \/ TakeInspectorTree \/ TakeW2Structure

SpecScan == InitScan /\ [][NextScan]_vars

\* --------------------------------------------- the application's own tree
\* The target application redraws its form while a plan is executed.
\* the field "a" is now the second control, the first is titled "c"
MovedFormTree ==
    [FormTree EXCEPT ![2].title = <<"c">>, ![3].title = <<"a">>,
                     ![3].identifier = None]

\* no control is titled, or identified as, "a" any more
ClosedFormTree ==
    [FormTree EXCEPT ![2].title = <<"c">>, ![3].identifier = None]

LiveTrees == {FormTree, MovedFormTree, ClosedFormTree}

\* fill_w2_form / fill_form has been called for the only record of a batch;
\* batch_fill_forms has connected before it calls fill_form
InitLive ==
    /\ tree = FormTree
    /\ query = NoQuery
    /\ result = NotFound
    /\ prog \in {"w2", "ai"}
    /\ pc = (IF prog = "w2" THEN "idle" ELSE "connected")
    /\ steps = <<>>
    /\ plan = <<>>
    /\ idx = 0
    /\ oplog = <<>>
    /\ outcome = <<>>
    /\ fieldval = [e \in DOMAIN tree |-> <<"o">>]
    /\ success_count = 0
    /\ ret = NoReturn
    /\ bpc = "form"
    /\ forms = 1
    /\ form = 1
    /\ attempts = <<1>>
    /\ results = NoResults

\* the application changes its tree between two entries of the plan
AppChangesTree ==
    /\ pc = "executing"
    /\ tree' \in LiveTrees \ {tree}
    /\ UNCHANGED <<query, result, flowvars>>

NextLive ==
    \/ W2Connect \/ W2Snapshot \/ W2AskOracle \/ W2Execute \/ W2Finish
    \/ AiSnapshot \/ AiAskOracle \/ AiFill \/ AiFinish
    \/ AppChangesTree

SpecLive == InitLive /\ [][NextLive]_vars

\* ================================================================== claims
\* Vocabulary of the claims about resolution.  Nodes are numbered in
\* document order (depth-first pre-order), so the earlier of two nodes is
\* the one with the smaller number.
Min(S) == CHOOSE x \in S : \A y \in S : x <= y

Attr(t, e, key) == IF key = "title" THEN t[e].title ELSE t[e].identifier

AllEmpty(criteria) == \A k \in DOMAIN criteria : criteria[k] = <<>>

\* e has every requested attribute and its value contains the requested one
SubstringMatch(t, e, criteria) ==
    \A k \in DOMAIN criteria :
        criteria[k] # <<>> =>
            /\ Attr(t, e, k) # None
            /\ Contains(lower(criteria[k]), lower(Attr(t, e, k)))

SubstringMatches(t, criteria) ==
    {e \in DOMAIN t : SubstringMatch(t, e, criteria)}

IdNodes(t, id) == {e \in DOMAIN t : t[e].identifier = id}

ExactEdits(t, title) ==
    {e \in DOMAIN t \ {1} :
        t[e].title = title /\ t[e].ctype = "Edit" /\ t[e].visible}

AskedCriteria == query.kind = "criteria"
AskedTarget == query.kind = "target"

\* C1: resolving criteria whose fields are all empty (or that have no field)
\* returns NotFound, never a node.
C1_EmptyCriteriaNotFound ==
    (AskedCriteria /\ AllEmpty(query.criteria)) => result = NotFound

C3_FirstMatchInDocumentOrder ==
    (AskedCriteria /\ ~AllEmpty(query.criteria)
        /\ Cardinality(SubstringMatches(tree, query.criteria)) >= 2)
    => result = Min(SubstringMatches(tree, query.criteria))

OpsOf(i) == {k \in DOMAIN oplog : oplog[k].act = i}

Attempted(i) == \E k \in DOMAIN outcome : outcome[k].act = i

HasStatus(i, status) ==
    \E k \in DOMAIN outcome : outcome[k].act = i /\ outcome[k].status = status

BackendFailed(i) == \E k \in OpsOf(i) : ~oplog[k].ok

Unresolved(i) ==
    \E k \in OpsOf(i) : oplog[k].op = "resolve" /\ oplog[k].node = NotFound

AllResolved ==
    /\ \A k \in DOMAIN oplog :
          oplog[k].op = "resolve" => oplog[k].node # NotFound
    /\ \A i \in 1..Len(plan) : \E k \in OpsOf(i) : oplog[k].op = "resolve"

Ended == pc \in {"done", "raised"}

\* C4: the plan is processed strictly in plan order: every backend call of
\* an entry precedes every backend call of the next, and no entry is
\* processed twice.
C4_PlanOrder ==
    /\ \A k \in 2..Len(oplog) : oplog[k - 1].act <= oplog[k].act
    /\ \A k \in 2..Len(outcome) : outcome[k - 1].act < outcome[k].act
    /\ \A i \in 1..Len(plan) :
          Cardinality({k \in OpsOf(i) : oplog[k].op = "resolve"}) <= 1

C4_Witness ==
    /\ pc = "done" /\ Len(plan) = 3
    /\ \A i \in 1..3 : OpsOf(i) # {}

\* C5: a backend failure while entry i is dispatched never ends the plan:
\* the flow is not failed, the next entry is attempted, and a completed
\* plan has attempted every later entry.
C5_FailureDoesNotStopPlan ==
    \A i \in 1..Len(plan) :
        (BackendFailed(i) \/ HasStatus(i, "failed")) =>
            /\ pc \in {"executing", "done", "raised"}
            /\ idx >= i
            /\ (Ended /\ i < Len(plan)) => Attempted(i + 1)
            /\ pc = "done" => \A j \in (i + 1)..Len(plan) : Attempted(j)

C5_Witness ==
    /\ pc = "done" /\ Len(plan) = 3
    /\ BackendFailed(1) /\ HasStatus(1, "failed")
    /\ OpsOf(2) # {} /\ OpsOf(3) # {}

PressOk(i) == \E k \in OpsOf(i) : oplog[k].op = "Press" /\ oplog[k].ok

C7_UnresolvedIsSkipped ==
    \A i \in 1..Len(plan) :
        Unresolved(i) =>
            /\ HasStatus(i, "skipped_not_found")
            /\ ~HasStatus(i, "filled") /\ ~HasStatus(i, "failed")
            /\ \A k \in OpsOf(i) : oplog[k].op = "resolve"
            /\ pc \in {"executing", "done", "raised"}
            /\ (Ended /\ i < Len(plan)) => Attempted(i + 1)

C7_Witness ==
    /\ pc = "done" /\ Len(plan) >= 2
    /\ Unresolved(1) /\ HasStatus(1, "skipped_not_found")
    /\ OpsOf(2) # {} /\ ~Unresolved(2)

\* C8: whatever the oracle's answer contains and whatever the backend does,
\* the executor never raises.
C8_ExecutorNeverRaises == pc # "raised"

\* C9: a failed step ends the attempt: no step follows a failed connection,
\* no oracle call follows a failed snapshot, and no backend call follows a
\* failed oracle step, after which the attempt is Failed.
C9_FailedIsAbsorbing ==
    \A j \in DOMAIN steps :
        /\ steps[j] \in {"connect_failed", "snapshot_failed", "oracle_failed"}
            => j = Len(steps)
        /\ steps[j] = "oracle_failed" => (oplog = <<>> /\ pc = "failed")

KnownTypes == {"set_text", "click", "select", "tab", "wait"}

UnknownKind(i) == plan[i].wf /\ plan[i].type \notin KnownTypes

\* C10 (as claimed): every entry of unrecognized kind is counted as one
\* validation failure.
C10_UnknownKindIsRecordedFailure ==
    (prog = "w2" /\ pc = "done") =>
        \A i \in 1..Len(plan) : UnknownKind(i) => HasStatus(i, "failed")

\* C10 (amended): an entry of unrecognized kind is passed over in silence,
\* with no backend call and no failure recorded, and the other entries are
\* processed in their original order.
C10_UnknownKindIsIgnored ==
    prog = "w2" =>
        /\ \A i \in 1..Len(plan) :
              (UnknownKind(i) /\ Attempted(i)) =>
                  (OpsOf(i) = {} /\ HasStatus(i, "ignored")
                      /\ ~HasStatus(i, "failed"))
        /\ \A i \in 1..Len(plan) :
              (~UnknownKind(i) /\ Attempted(i)) => ~HasStatus(i, "ignored")
        /\ \A j, k \in DOMAIN outcome : j < k => outcome[j].act < outcome[k].act
        /\ pc = "done" => \A i \in 1..Len(plan) : Attempted(i)

\* one entry of unknown kind between two valid ones: two entries dispatched
C10_Witness ==
    /\ prog = "w2" /\ pc = "done" /\ Len(plan) = 3
    /\ UnknownKind(2) /\ ~UnknownKind(1) /\ ~UnknownKind(3)
    /\ plan[1].wf /\ plan[3].wf
    /\ OpsOf(1) # {} /\ OpsOf(2) = {} /\ OpsOf(3) # {}
    /\ \A k \in DOMAIN outcome : outcome[k].status # "failed"

\* Vocabulary of the claims about mappings.
WellFormed == \A j \in 1..Len(plan) : plan[j].wf

OpsNamed(i, name) == {k \in OpsOf(i) : oplog[k].op = name}

ValueOf(i) == Get(FormData, plan[i].data_field)

\* C11: from a list of field mappings, a mapping whose data_field has no
\* value causes no resolution, no fill and no error; every other mapping is
\* taken up exactly once, in mapping order: one resolution, and on the
\* resolved element one fill that writes the caller's value for that field.
C11_OneFillPerValuedMapping ==
    (prog = "ai" /\ WellFormed) =>
        /\ pc # "raised"
        /\ \A j, k \in DOMAIN outcome : j < k => outcome[j].act < outcome[k].act
        /\ pc = "done" => \A i \in 1..Len(plan) : Attempted(i)
        /\ \A i \in 1..Len(plan) :
              Attempted(i) =>
                  IF ValueOf(i) = None
                  THEN OpsOf(i) = {} /\ HasStatus(i, "dropped")
                  ELSE /\ Cardinality(OpsNamed(i, "resolve")) = 1
                       /\ Cardinality(OpsNamed(i, "AXFocused")) =
                              (IF Unresolved(i) THEN 0 ELSE 1)
                       /\ Cardinality(OpsNamed(i, "AXValue")) <= 1
                       /\ \A k \in OpsNamed(i, "AXValue") :
                              (oplog[k].ok /\ i = Len(outcome))
                                  => fieldval[oplog[k].node] = ValueOf(i)

\* a mapping without a value passed over, then the second value written
C11_Witness ==
    /\ prog = "ai" /\ pc = "done" /\ WellFormed /\ Len(plan) = 2
    /\ ValueOf(1) = None /\ OpsOf(1) = {}
    /\ plan[2].data_field = "f2" /\ HasStatus(2, "filled")
    /\ \E k \in OpsNamed(2, "AXValue") : fieldval[oplog[k].node] = <<"w">>

\* the text field with the given title and identifier
FieldNode(t, title, identifier) ==
    CHOOSE e \in DOMAIN t :
        /\ t[e].title = title /\ t[e].identifier = identifier
        /\ t[e].ctype = "Edit"

ResolvedNode(i) == oplog[CHOOSE k \in OpsNamed(i, "resolve") : TRUE].node

\* the mappings of the two values: to the field titled "a" and to the field
\* titled "b" with the identifier "a"
TwoMappings ==
    <<[wf |-> TRUE, data_field |-> "f1", ui_title |-> <<"a">>,
       ui_identifier |-> <<>>],
      [wf |-> TRUE, data_field |-> "f2", ui_title |-> <<"b">>,
       ui_identifier |-> <<"a">>]>>

\* C12: with two values, a mapping to each of the two text fields and a
\* tree that contains both, each mapping resolves to its own field, and
\* when the backend accepts every call both are filled, none is skipped and
\* none fails.
C12_EndToEndTwoFields ==
    (prog = "ai" /\ pc = "done" /\ plan = TwoMappings
        /\ \A k \in DOMAIN oplog : oplog[k].ok)
    => /\ ResolvedNode(1) = FieldNode(tree, <<"a">>, None)
       /\ ResolvedNode(2) = FieldNode(tree, <<"b">>, <<"a">>)
       /\ fieldval[FieldNode(tree, <<"a">>, None)] = <<"v">>
       /\ fieldval[FieldNode(tree, <<"b">>, <<"a">>)] = <<"w">>
       /\ success_count = 2
       /\ \A i \in 1..2 : HasStatus(i, "filled")

\* Vocabulary of the claims about batches.
AllForms == [i \in 1..forms |-> i]

\* the batch function is over and no interrupt arrived
BatchOver == bpc = "returned" \/ (bpc = "aborted" /\ pc = "raised")

\* C13: in batch mode every record of the input is attempted exactly once,
\* in order, even when an earlier record fails or the connection fails, and
\* the batch output accounts for every record.
C13_EveryFormAttempted ==
    /\ \A k \in DOMAIN attempts : attempts[k] = k
    /\ BatchOver => attempts = AllForms
    /\ (prog = "w2" /\ bpc = "returned")
          => results.success + results.failed = forms

\* C14: an interrupt never stops a plan in progress: whenever the batch has
\* ended, by return, by break or by an interrupt, the plan of the last
\* record started was executed to its last entry.
C14_NoMidPlanCancellation ==
    (bpc \in {"returned", "stopped", "aborted"} /\ pc # "raised")
    => /\ pc \in {"done", "failed"}
       /\ \A i \in 1..Len(plan) : Attempted(i)

\* the call that fills one form was made and is over
FillOver ==
    /\ pc \in {"done", "failed", "raised"}
    /\ prog = "ai" => Len(steps) >= 2

\* C15: every call that fills one form comes back to its caller with a
\* result, whatever happened, never by raising, and after a total failure
\* (no entry filled) the result does not report success.
C15_AlwaysReturnsSummary ==
    FillOver =>
        /\ ret.returned
        /\ (\A i \in 1..Len(plan) : ~HasStatus(i, "filled")) => ~ret.success

\* C17: execute_actions returns True only if every action of the list was
\* executed successfully.
C17_TrueOnlyIfAllSucceeded ==
    (prog = "w2" /\ pc = "done" /\ ret.success)
    => \A i \in 1..Len(plan) : ~HasStatus(i, "failed") /\ ~BackendFailed(i)

\* no entry of the received plan is a valid one (an empty plan included)
AllInvalid ==
    \A j \in 1..Len(plan) :
        ~plan[j].wf \/ (prog = "w2" /\ plan[j].type \notin KnownTypes)

PlanReceived ==
    \E k \in DOMAIN steps : steps[k] \in {"oracle_ok", "oracle_failed"}

\* C18: a received plan that is empty or has only invalid entries makes the
\* form Failed: it is never executed or completed, and the form is not
\* reported as filled.
C18_EmptyOrInvalidPlanFails ==
    (PlanReceived /\ AllInvalid) =>
        /\ pc \notin {"executing", "done"}
        /\ ~ret.success

\* entry i is a set_text or select whose value is empty
EmptyValued(i) ==
    /\ plan[i].wf /\ plan[i].type \in {"set_text", "select"}
    /\ plan[i].value = <<>>

\* C19: a set_text or select whose value is empty is never dispatched: no
\* backend call is made for it, and as long as no backend call fails no
\* field is left empty by the executor.
C19_NoEmptyValueDispatched ==
    prog = "w2" =>
        /\ \A i \in 1..Len(plan) :
              (EmptyValued(i) /\ Attempted(i)) => OpsOf(i) = {}
        /\ (\A k \in DOMAIN oplog : oplog[k].ok)
              => \A e \in DOMAIN fieldval : fieldval[e] # <<>>

\* Vocabulary of the claims about waits.
IsWait(i) == plan[i].wf /\ plan[i].type = "wait"

Sleeps(i) == {k \in OpsNamed(i, "sleep") : oplog[k].ok}

\* C20 (as claimed): a wait whose value is absent or is no duration waits
\* the default 1.0 and is no failure, and no wait suspends for a negative
\* time.
C20_WaitDefaultsWhenUnparseable ==
    prog = "w2" =>
        \A i \in 1..Len(plan) :
            (IsWait(i) /\ Attempted(i)) =>
                /\ (plan[i].value = <<>> \/ ~ParsesAsFloat(plan[i].value))
                      => /\ ~HasStatus(i, "failed")
                         /\ \E k \in Sleeps(i) : oplog[k].secs = DefaultWait
                /\ \A k \in Sleeps(i) : oplog[k].secs >= 0

\* C20 (amended): a wait whose value is absent waits the default 1.0 and is
\* no failure; a wait whose value is no number, or is negative, is logged
\* as a failed action without any wait, and the plan goes on; no wait
\* suspends for a negative time.
C20_WaitDefaultsOnlyWhenAbsent ==
    prog = "w2" =>
        \A i \in 1..Len(plan) :
            (IsWait(i) /\ Attempted(i)) =>
                /\ plan[i].value = <<>>
                      => /\ ~HasStatus(i, "failed")
                         /\ Cardinality(Sleeps(i)) = 1
                         /\ \A k \in Sleeps(i) : oplog[k].secs = DefaultWait
                /\ (plan[i].value # <<>> /\ ~ParsesAsFloat(plan[i].value))
                      => (HasStatus(i, "failed") /\ OpsOf(i) = {})
                /\ (ParsesAsFloat(plan[i].value) /\ AsFloat(plan[i].value) < 0)
                      => (HasStatus(i, "failed") /\ Sleeps(i) = {})
                /\ \A k \in Sleeps(i) : oplog[k].secs >= 0
                /\ (pc = "done" /\ i < Len(plan)) => Attempted(i + 1)

\* a wait whose value is no number fails without waiting, and the wait
\* without a value that follows it waits the default
C20_Witness ==
    /\ prog = "w2" /\ pc = "done" /\ Len(plan) = 2
    /\ IsWait(1) /\ plan[1].value = <<"x">>
    /\ HasStatus(1, "failed") /\ OpsOf(1) = {}
    /\ IsWait(2) /\ plan[2].value = <<>>
    /\ \E k \in Sleeps(2) : oplog[k].secs = DefaultWait

\* Vocabulary of the claims about scans of ailing trees.
Resolved == (AskedCriteria \/ AskedTarget) /\ result # NotFound

ParentOf(t, e) == CHOOSE p \in DOMAIN t : e \in Range(t[p].kids)

RECURSIVE Depth(_, _)
\* levels between the search root, node 1, and e
Depth(t, e) == IF e = 1 THEN 0 ELSE 1 + Depth(t, ParentOf(t, e))

\* C21: a node whose attributes cannot be read is never returned as the
\* match of a resolution.
C21_UnreadableNeverReturned == Resolved => tree[result].readable

\* the element came from the scan over descendants(), the last strategy
ByTextScan ==
    /\ AskedTarget /\ result # NotFound
    /\ ByTitle(tree, query.target) = NotFound
    /\ ByAutoId(tree, query.target) = NotFound
    /\ ByTitleRe(tree, query.target) = NotFound

\* C22: an element returned by the descendant text scan is visible and
\* enabled.
C22_TextScanVisibleAndEnabled ==
    ByTextScan => (tree[result].visible /\ tree[result].enabled)

\* C23: no resolution returns a node that lies DefaultMaxDepth levels or more
\* below the search root.
C23_NothingBeyondMaxDepth ==
    Resolved => Depth(tree, result) < DefaultMaxDepth

TookSnapshot ==
    query.kind \in {"get_ui_structure", "get_ui_tree", "get_ui_tree_structure"}

RECURSIVE Faithful(_, _)
\* below the snapshot entry s of a node whose children can be enumerated,
\* every child of the node is at its position, as an entry of its own or as
\* the sentinel
Faithful(t, s) ==
    (s.kind = "node" /\ t[s.node].listable) =>
        /\ Len(s.children) = Len(t[s.node].kids)
        /\ \A k \in 1..Len(s.children) :
              /\ s.children[k].kind \in {"node", "truncated"}
              /\ s.children[k].kind = "node" =>
                    /\ s.children[k].node = t[s.node].kids[k]
                    /\ Faithful(t, s.children[k])

\* C24: in every snapshot each child of a node that was read appears at its
\* position, as an entry or as the "truncated" sentinel; none is left out.
C24_NoChildSilentlyDropped == TookSnapshot => Faithful(tree, result)

\* C27: an element the criteria search returns for criteria with a non-empty
\* field can be read, has every requested attribute, and the value of each
\* contains the requested one.
C27_CriteriaSearchIsSound ==
    (AskedCriteria /\ ~AllEmpty(query.criteria) /\ result # NotFound) =>
        /\ tree[result].readable
        /\ SubstringMatch(tree, result, query.criteria)

\* Vocabulary of the claims about value entry.
IsSetText(i) == plan[i].wf /\ plan[i].type = "set_text"

\* the backend calls made for entry i, in the order they were made
CallsOf(i) == LET Of(o) == o.act = i IN SelectSeq(oplog, Of)

Names(ops) == [k \in DOMAIN ops |-> ops[k].op]

AllOk(ops) == \A k \in DOMAIN ops : ops[k].ok

IsPrefix(a, b) == Len(a) <= Len(b) /\ a = SubSeq(b, 1, Len(a))

DirectCalls == <<"resolve", "set_focus", "clear", "set_edit_text">>
KeystrokeCalls == <<"set_focus", "select_all", "type_keys">>

\* the calls up to and including the first one that raised
UpToFailure(ops) ==
    SubSeq(ops, 1, CHOOSE k \in DOMAIN ops :
                      ~ops[k].ok /\ \A j \in 1..(k - 1) : ops[j].ok)

AfterFailure(ops) == SubSeq(ops, Len(UpToFailure(ops)) + 1, Len(ops))

LoggedFailed ==
    /\ Len(outcome') = Len(outcome) + 1
    /\ outcome'[Len(outcome')].status = "failed"

\* C28: a value entry that is reported as failed leaves every field with
\* the text it held before the entry was processed.
C28_FailedEntryLeavesFieldUntouched ==
    [][LoggedFailed => fieldval' = fieldval]_vars

\* Vocabulary of the claims about the live tree.
\* the entry processed in this step names an element to act on
Targeted(entry) ==
    /\ entry.wf
    /\ IF prog = "w2" THEN entry.type \in {"set_text", "click", "select"}
       ELSE Get(FormData, entry.data_field) # None

\* what the entry's target matches in the tree t
MatchIn(t, entry) ==
    IF prog = "w2" THEN _find_element_by_target(t, entry.target)
    ELSE find_element_by_criteria(t, build_criteria(entry))

\* C26: every entry that names an element is resolved when it is processed,
\* in the tree as the application shows it at that moment: the first
\* backend call of the step is the resolution, it yields what the target
\* matches in the current tree, every other call of the step is made on
\* that element, and the entry is skipped when nothing matches any more.
C26_ResolvesInLiveTree ==
    [][(pc = "executing" /\ idx' = idx + 1 /\ Targeted(plan[idx + 1])) =>
          LET new == SubSeq(oplog', Len(oplog) + 1, Len(oplog'))
              element == MatchIn(tree, plan[idx + 1])
          IN /\ new # <<>>
             /\ new[1].op = "resolve" /\ new[1].node = element
             /\ \A k \in 2..Len(new) : new[k].node = element
             /\ element = NotFound =>
                   /\ Len(new) = 1
                   /\ outcome'[Len(outcome')].status = "skipped_not_found"
      ]_vars

SameTarget(i, j) ==
    IF prog = "w2" THEN plan[i].target = plan[j].target
    ELSE build_criteria(plan[i]) = build_criteria(plan[j])

\* two entries with the same target, the form changed in between: the
\* second acts on another element than the first, or is skipped
C26_Witness ==
    /\ Len(plan) = 2 /\ idx = 2
    /\ plan[1].wf /\ plan[2].wf /\ SameTarget(1, 2)
    /\ \E j \in OpsOf(1), k \in OpsOf(2) :
          /\ oplog[j].op = "resolve" /\ oplog[k].op = "resolve"
          /\ oplog[j].node # NotFound
          /\ oplog[k].node # oplog[j].node

\* Vocabulary of the claims about batches.
Counted == results.success + results.failed

\* fill_w2_form has returned for the current record and was counted
RecordCounted == bpc \in {"pacing", "loop", "returned"}

\* C29: in fill_multiple_w2_forms the two counters add up to the number of
\* records processed so far, the return of each record raises exactly one
\* of them by one, and at return they add up to the length of the list.
C29_CountersAddUp ==
    /\ [](prog = "w2" =>
            /\ RecordCounted => Counted = form
            /\ bpc = "form" => Counted = form - 1
            /\ bpc = "returned" => Counted = forms)
    /\ [][(prog = "w2" /\ bpc = "form" /\ bpc' # "form" /\ ret.returned) =>
            \/ /\ results'.success = results.success + 1
               /\ results'.failed = results.failed
            \/ /\ results'.success = results.success
               /\ results'.failed = results.failed + 1]_vars

\* two records, one filled and one not, and the counters returned
C29_Witness ==
    /\ prog = "w2" /\ bpc = "returned" /\ forms = 2
    /\ results.success = 1 /\ results.failed = 1

\* C30: in batch_fill_forms the delay is taken only when a record is still
\* to come, and an interrupt during it ends the batch: no fill is started
\* after it.
C30_InterruptAtPacingEndsBatch ==
    /\ [](prog = "ai" =>
            /\ bpc = "pacing" => (form < forms /\ ret.returned)
            /\ bpc = "stopped" => (form < forms /\ Len(attempts) = form))
    /\ [][(prog = "ai" /\ bpc = "stopped") =>
            (attempts' = attempts /\ bpc' = "stopped")]_vars

\* the interrupt came in the delay after the first of two records
C30_Witness ==
    /\ prog = "ai" /\ bpc = "stopped" /\ forms = 2
    /\ attempts = <<1>> /\ ret.returned

====
